---- MODULE Spec2Model ----
(***************************************************************************)
(* libhaloc: image hashing (Hash) and loop-closure candidate retrieval     *)
(* (Haloc).  One engine instance: its configuration, the lazily built      *)
(* projection basis r_, the table of stored hashes, and the last call      *)
(* with its result.                                                        *)
(*                                                                         *)
(* Number representation.  A float is an integer in fixed point, or NaN.   *)
(* A basis vector is kept as the canonical integer representative of its   *)
(* direction (unitVector divides by the gcd instead of the norm; both map  *)
(* x and c*x, c > 0, to the same vector and both are undefined on the zero *)
(* vector, where the code computes 0/0 = NaN).  A distance is kept as its  *)
(* square: sqrt is strictly increasing and maps 0 to 0, so every           *)
(* comparison the code makes on a distance is preserved.                   *)
(***************************************************************************)
EXTENDS Integers, Sequences, FiniteSets

\* ------------------------------------------------------------------ bounds
MaxId == 3
MaxCand == 2
MaxNumProj == 3
MaxMaxDesc == 2
MaxRows == 2
MaxPat == 1
MaxRand == 2
DescCols == 2

\* ------------------------------------------------------------------ floats
\* The value of 0.0/0.0 (hash.cc:160); outside the range of every finite value.
NaN == -999999
\* One unit of the fixed point: (p + 1.0) / 2.0 / rows is exact for rows <= 4.
Unit == 12

IsNaN(x) == x = NaN
FAdd(x, y) == IF IsNaN(x) \/ IsNaN(y) THEN NaN ELSE x + y
FSub(x, y) == IF IsNaN(x) \/ IsNaN(y) THEN NaN ELSE x - y
FMul(x, y) == IF IsNaN(x) \/ IsNaN(y) THEN NaN ELSE x * y
\* IEEE comparisons: false as soon as one side is NaN.
FLess(x, y) == ~IsNaN(x) /\ ~IsNaN(y) /\ x < y
FLeq(x, y) == ~IsNaN(x) /\ ~IsNaN(y) /\ x <= y

Abs(x) == IF x < 0 THEN -x ELSE x
Min2(x, y) == IF x < y THEN x ELSE y
RECURSIVE Gcd(_, _)
Gcd(a, b) == IF b = 0 THEN a ELSE Gcd(b, a % b)
RECURSIVE GcdSeq(_)
GcdSeq(x) == IF Len(x) = 0 THEN 0 ELSE Gcd(Abs(Head(x)), GcdSeq(Tail(x)))

\* ------------------------------------------------------------------ inputs
Ids == 1..MaxId
NumCandidates == (-1)..MaxCand
IgnoreSets == SUBSET Ids
RandVals == 1..MaxRand
\* An image: empty (cv::Mat::empty), or a raster on which the extractor finds
\* `rows` keypoints; `pat` selects the descriptor values.
EmptyImage == [empty |-> TRUE, rows |-> 0, pat |-> 0]
Images ==
    {EmptyImage}
    \cup {[empty |-> FALSE, rows |-> 0, pat |-> 0]}
    \cup {[empty |-> FALSE, rows |-> 1, pat |-> p] : p \in 0..MaxPat}
    \cup {[empty |-> FALSE, rows |-> k, pat |-> 0] : k \in 2..MaxRows}

\* Haloc::calcDesc: the extractor is a deterministic function of the image, one
\* row of DescCols non-negative floats per keypoint.
calcDesc(image) ==
    [m \in 1..image.rows |->
        [n \in 1..DescCols |-> (image.pat + (m - 1) + (n - 1)) % (MaxPat + 1)]]

\* ------------------------------------------------------------------ basis
\* Hash::computeRandomVector: every vector of `size` draws of rand()/RAND_MAX;
\* a negative size makes std::vector's constructor throw (see initProjections).
computeRandomVector(size) == [1..size -> RandVals]

\* Hash::unitVector: x / |x|; 0/0 = NaN on the zero vector.
unitVector(x) ==
    LET g == GcdSeq(x)
    IN  [k \in 1..Len(x) |-> IF g = 0 THEN NaN ELSE x[k] \div g]

\* Determinant by expansion along the first row.
Minor(A, c) ==
    [r \in 1..(Len(A) - 1) |->
        [k \in 1..(Len(A) - 1) |-> A[r + 1][IF k < c THEN k ELSE k + 1]]]
RECURSIVE Det(_)
Det(A) ==
    IF Len(A) = 0 THEN 1
    ELSE LET Term(c) == (IF c % 2 = 1 THEN 1 ELSE -1) * A[1][c] * Det(Minor(A, c))
             RECURSIVE Sum(_)
             Sum(c) == IF c = 0 THEN 0 ELSE Term(c) + Sum(c - 1)
         IN  Sum(Len(A))
ReplaceCol(A, c, b) ==
    [r \in 1..Len(A) |-> [k \in 1..Len(A) |-> IF k = c THEN b[r] ELSE A[r][k]]]

\* The vectors new_v extended by the solution x of A x = b
\* (A.colPivHouseholderQr().solve(b)), up to the positive factor that the
\* following unitVector removes: |det A| * (new_v, x) by Cramer's rule.  A zero
\* right-hand side yields x = 0.  For a singular A with b # 0 the solver returns
\* some least-squares solution: any x over {-1, 0, 1}.
SolveAndExtend(new_v, A, b) ==
    LET i == Len(A)
        d == Det(A)
        s == IF d < 0 THEN -1 ELSE 1
    IN  IF \A n \in 1..i : b[n] = 0
        THEN {new_v \o [n \in 1..i |-> 0]}
        ELSE IF d # 0
        THEN {[k \in 1..Len(new_v) |-> Abs(d) * new_v[k]]
                \o [n \in 1..i |-> s * Det(ReplaceCol(A, n, b))]}
        ELSE {new_v \o x : x \in [1..i -> {-1, 0, 1}]}

RECURSIVE Dot(_, _, _)
Dot(x, y, m) == IF m = 0 THEN 0 ELSE FAdd(FMul(x[m], y[m]), Dot(x, y, m - 1))

\* One round of the loop of Hash::initProjections (hash.cc:104-138) and the
\* rounds after it: rs holds the i vectors accepted so far.  A round with
\* max_desc - i < 0 throws out of computeRandomVector and leaves rs in r_.
RECURSIVE initRounds(_, _, _, _)
initRounds(rs, i, num_proj, max_desc) ==
    IF i >= num_proj THEN {[r |-> rs, threw |-> FALSE]}
    ELSE IF max_desc - i < 0 THEN {[r |-> rs, threw |-> TRUE]}
    ELSE UNION {
        LET b == [n \in 1..i |-> -Dot(new_v, rs[n], Len(new_v))]
            A == [n \in 1..i |-> [k \in 1..i |-> rs[n][Len(rs[n]) - i + k]]]
        IN  UNION {initRounds(Append(rs, unitVector(v)), i + 1, num_proj, max_desc)
                     : v \in SolveAndExtend(new_v, A, b)}
        : new_v \in computeRandomVector(max_desc - i)}

\* Hash::initProjections: r_.clear(), the first random unit vector, the rounds.
initProjections(num_proj, max_desc) ==
    UNION {initRounds(<<unitVector(r)>>, 1, num_proj, max_desc)
             : r \in computeRandomVector(max_desc)}

\* ------------------------------------------------------------------- hash
\* hash.cc:36-48: more rows than r_[0].size() are cut down to that many, taken
\* in the order of a random shuffle: any injective choice of rows.
AdjustDesc(desc, cap) ==
    IF Len(desc) > cap
    THEN {[k \in 1..cap |-> desc[pick[k]]] :
            pick \in {f \in [1..cap -> 1..Len(desc)] :
                        \A a, b \in 1..cap : a # b => f[a] # f[b]}}
    ELSE {desc}

\* hash.cc:55-60: the sum over the used rows m of (r_[i][m]*desc(m,n) + 1)/2,
\* kept as twice its value (0-based i, n).
RECURSIVE DescSum(_, _, _, _, _)
DescSum(r, adjusted, i, n, m) ==
    IF m = 0 THEN 0
    ELSE FAdd(FAdd(FMul(r[i + 1][m], adjusted[m][n + 1]), 1),
              DescSum(r, adjusted, i, n, m - 1))

\* hash.cc:55-61: desc_sum / desc_length for projection i and column n.
ProjectionScalar(r, adjusted, max_desc, i, n) ==
    LET sum == DescSum(r, adjusted, i, n, Min2(Len(adjusted), max_desc))
    IN  IF IsNaN(sum) THEN NaN ELSE (sum * Unit) \div (2 * Len(adjusted))

\* hash.cc:61: the slot written for projection i and column n (0-based).
HashIndex(i, n, cols) == i * n

\* hash.cc:52-63: a vector of r_.size()*cols zeros, then the writes in loop
\* order (i outer, n inner); the last write to a slot stays.
ProjectDesc(r, adjusted, max_desc) ==
    LET cols == Len(adjusted[1])
        Writers(s) == {p \in (0..(Len(r) - 1)) \X (0..(cols - 1)) :
                         HashIndex(p[1], p[2], cols) = s}
        Last(W) == CHOOSE p \in W :
                     \A q \in W : q[1] * cols + q[2] <= p[1] * cols + p[2]
    IN  [s1 \in 1..(Len(r) * cols) |->
            IF Writers(s1 - 1) = {} THEN 0
            ELSE LET p == Last(Writers(s1 - 1))
                 IN  ProjectionScalar(r, adjusted, max_desc, p[1], p[2])]

\* Hash::calcHash (hash.cc:22-66): every outcome of one call.  r and
\* initialized are the engine's fields after the call; threw tells that
\* initProjections threw (initialized_ is then left false); hash is the
\* returned vector, adjusted the descriptor rows it was computed from.
calcHash(initialized, r, num_proj, max_desc, desc) ==
    LET inits == IF initialized THEN {[r |-> r, threw |-> FALSE]}
                 ELSE initProjections(num_proj, max_desc)
    IN  UNION {
          IF b.threw
          THEN {[r |-> b.r, initialized |-> FALSE, threw |-> TRUE,
                 hash |-> <<>>, adjusted |-> <<>>]}
          ELSE IF Len(desc) = 0
          THEN {[r |-> b.r, initialized |-> TRUE, threw |-> FALSE,
                 hash |-> <<>>, adjusted |-> <<>>]}
          ELSE {[r |-> b.r, initialized |-> TRUE, threw |-> FALSE,
                 hash |-> ProjectDesc(b.r, a, max_desc), adjusted |-> a]
                  : a \in AdjustDesc(desc, Len(b.r[1]))}
          : b \in inits}

\* Hash::calcSimilarity (hash.cc:68-83): -1.0 on a size mismatch, else the
\* Euclidean distance (kept squared).
RECURSIVE SquaredDiffs(_, _, _)
SquaredDiffs(a, b, k) ==
    IF k = 0 THEN 0
    ELSE FAdd(FMul(FSub(a[k], b[k]), FSub(a[k], b[k])), SquaredDiffs(a, b, k - 1))
calcSimilarity(hash_a, hash_b) ==
    IF Len(hash_a) # Len(hash_b) THEN -1
    ELSE SquaredDiffs(hash_a, hash_b, Len(hash_a))

\* ---------------------------------------------------------------- matcher
\* StoreHash with std::map::insert in place of operator[]: an entry already
\* present keeps its old hash.
StoreHash_keepExisting(table, image_id, hash) ==
    [k \in (DOMAIN table) \cup {image_id} |->
        IF k \in DOMAIN table THEN table[k] ELSE hash]

\* hashes_table_[image_id] = hash (haloc.cc:40).
StoreHash(table, image_id, hash) ==
    [k \in (DOMAIN table) \cup {image_id} |->
        IF k = image_id THEN hash ELSE table[k]]

\* calcSimilarities without the lookup in images_to_ignore.
calcSimilarities_noIgnore(table, hash, images_to_ignore) ==
    LET kept == {k \in DOMAIN table : ~FLeq(calcSimilarity(hash, table[k]), 0)}
    IN  [k \in kept |-> calcSimilarity(hash, table[k])]

\* Haloc::calcSimilarities (haloc.cc:63-82).
calcSimilarities(table, hash, images_to_ignore) ==
    LET kept == {k \in DOMAIN table :
                   /\ k \notin images_to_ignore
                   /\ ~FLeq(calcSimilarity(hash, table[k]), 0)}
    IN  [k \in kept |-> calcSimilarity(hash, table[k])]

\* std::min_element over the map in key order with the comparison of
\* haloc.cc:92-94: the scan keeps the first element no later one is less than.
RECURSIVE MinScan(_, _, _)
MinScan(similarities, smallest, todo) ==
    IF todo = {} THEN smallest
    ELSE LET k == CHOOSE x \in todo : \A y \in todo : x <= y
         IN  MinScan(similarities,
                     IF FLess(similarities[k], similarities[smallest])
                     THEN k ELSE smallest,
                     todo \ {k})
MinElement(similarities) ==
    LET first == CHOOSE x \in DOMAIN similarities :
                   \A y \in DOMAIN similarities : x <= y
    IN  MinScan(similarities, first, (DOMAIN similarities) \ {first})

\* candidates.size() < num_candidates (haloc.cc:89): the int is converted to
\* size_t, so a negative num_candidates is larger than every size.
SizeLess(size, num_candidates) ==
    IF num_candidates < 0 THEN TRUE ELSE size < num_candidates

\* Haloc::getBestCandidates (haloc.cc:84-104).
RECURSIVE BestLoop(_, _, _)
BestLoop(similarities, candidates, num_candidates) ==
    IF SizeLess(Len(candidates), num_candidates) /\ DOMAIN similarities # {}
    THEN LET min_sim == MinElement(similarities)
         IN  BestLoop([k \in (DOMAIN similarities) \ {min_sim} |-> similarities[k]],
                      Append(candidates, min_sim), num_candidates)
    ELSE candidates
getBestCandidates(similarities, num_candidates) ==
    BestLoop(similarities, <<>>, num_candidates)

\* process with the store of haloc.cc:40 moved in front of the two checks.
process_storeFirst(table, image_id, image, hash, num_candidates, images_to_ignore) ==
    LET stored == StoreHash(table, image_id, hash)
        similarities == calcSimilarities(stored, hash, images_to_ignore)
        candidates == getBestCandidates(similarities, num_candidates)
    IN  IF image.empty
        THEN [table |-> stored, kind |-> "nullopt", log |-> "image empty", list |-> <<>>]
        ELSE IF hash = <<>>
        THEN [table |-> stored, kind |-> "nullopt", log |-> "hash empty", list |-> <<>>]
        ELSE IF candidates = <<>>
        THEN [table |-> stored, kind |-> "nullopt",
              log |-> "no candidates", list |-> <<>>]
        ELSE [table |-> stored, kind |-> "list", log |-> "", list |-> candidates]

\* Haloc::process (haloc.cc:18-54) from the result of its calcHash call on:
\* the table afterwards and the returned value (kind "nullopt" or "list"; log
\* is the message written to std::cerr).
process(table, image_id, image, hash, num_candidates, images_to_ignore) ==
    IF image.empty
    THEN [table |-> table, kind |-> "nullopt", log |-> "image empty", list |-> <<>>]
    ELSE IF hash = <<>>
    THEN [table |-> table, kind |-> "nullopt", log |-> "hash empty", list |-> <<>>]
    ELSE LET stored == StoreHash(table, image_id, hash)
             similarities == calcSimilarities(stored, hash, images_to_ignore)
             candidates == getBestCandidates(similarities, num_candidates)
         IN  IF candidates = <<>>
             THEN [table |-> stored, kind |-> "nullopt",
                   log |-> "no candidates", list |-> <<>>]
             ELSE [table |-> stored, kind |-> "list", log |-> "", list |-> candidates]

\* ------------------------------------------------------------------ state
VARIABLES
    num_proj_,      \* Hash::num_proj_
    max_desc_,      \* Hash::max_desc_
    initialized_,   \* Hash::initialized_
    r_,             \* Hash::r_, the basis
    hashes_table_,  \* Haloc::hashes_table_
    call,           \* the last call: its arguments, the hash it computed
    ret             \* what the last call returned

vars == <<num_proj_, max_desc_, initialized_, r_, hashes_table_, call, ret>>

NoCall ==
    [op |-> "none", image_id |-> 0, image |-> EmptyImage, num_candidates |-> 0,
     images_to_ignore |-> {}, hash |-> <<>>, adjusted |-> <<>>, had |-> FALSE]

NoResult == [kind |-> "none", log |-> "", list |-> <<>>]

\* Haloc::Haloc and Hash::Hash: any positive configuration is accepted; the
\* basis is not built and the table is empty.
Init ==
    /\ num_proj_ \in 1..MaxNumProj
    /\ max_desc_ \in 1..MaxMaxDesc
    /\ initialized_ = FALSE
    /\ r_ = <<>>
    /\ hashes_table_ = <<>>
    /\ call = NoCall
    /\ ret = NoResult

\* The calcHash call of a process call: none is made for an empty image.
HashOutcomes(image) ==
    IF image.empty
    THEN {[r |-> r_, initialized |-> initialized_, threw |-> FALSE,
           hash |-> <<>>, adjusted |-> <<>>]}
    ELSE calcHash(initialized_, r_, num_proj_, max_desc_, calcDesc(image))

\* One call of Haloc::process with the outcome h of its calcHash call, made by
\* a caller that holds no pending result (calls are synchronous).
Process(image_id, image, num_candidates, images_to_ignore, h) ==
    /\ call.op = "none"
    /\ \E out \in {process(hashes_table_, image_id, image, h.hash,
                           num_candidates, images_to_ignore)} :
        /\ r_' = h.r
        /\ initialized_' = h.initialized
        /\ hashes_table_' = IF h.threw THEN hashes_table_ ELSE out.table
        /\ ret' = IF h.threw
                  THEN [kind |-> "throw", log |-> "", list |-> <<>>]
                  ELSE [kind |-> out.kind, log |-> out.log, list |-> out.list]
        /\ call' = [op |-> "process", image_id |-> image_id, image |-> image,
                    num_candidates |-> num_candidates,
                    images_to_ignore |-> images_to_ignore,
                    hash |-> h.hash, adjusted |-> h.adjusted,
                    had |-> image_id \in DOMAIN hashes_table_]
        /\ UNCHANGED <<num_proj_, max_desc_>>

\* One direct call of Hash::calcHash on the descriptors of an image, with its
\* outcome h.
CalcHash(image, h) ==
    /\ call.op = "none"
    /\ r_' = h.r
    /\ initialized_' = h.initialized
    /\ ret' = [kind |-> IF h.threw THEN "throw" ELSE "hash",
               log |-> "", list |-> <<>>]
    /\ call' = [op |-> "calcHash", image_id |-> 0, image |-> image,
                num_candidates |-> 0, images_to_ignore |-> {},
                hash |-> h.hash, adjusted |-> h.adjusted, had |-> FALSE]
    /\ UNCHANGED <<num_proj_, max_desc_, hashes_table_>>

\* The caller takes the returned value (or catches the exception) and goes on;
\* the engine keeps its state.
CallerContinues ==
    /\ call.op # "none"
    /\ call' = NoCall
    /\ ret' = NoResult
    /\ UNCHANGED <<num_proj_, max_desc_, initialized_, r_, hashes_table_>>

Idle == call.op = "none"

Next ==
    \/ /\ Idle
       /\ \E image \in Images : \E h \in HashOutcomes(image) :
            \E image_id \in Ids, images_to_ignore \in IgnoreSets,
               num_candidates \in NumCandidates :
                Process(image_id, image, num_candidates, images_to_ignore, h)
    \/ /\ Idle
       /\ \E image \in Images \ {EmptyImage} :
            \E h \in calcHash(initialized_, r_, num_proj_, max_desc_, calcDesc(image)) :
                CalcHash(image, h)
    \/ CallerContinues

Spec == Init /\ [][Next]_vars

\* ----------------------------------------------------------------- claims
\* The similarity of stored id k to the hash of the last call, and the ids the
\* last call could rank: stored, not ignored, similarity > 0.
Sim(k) == calcSimilarity(call.hash, hashes_table_[k])
Eligible ==
    {k \in (DOMAIN hashes_table_) \ call.images_to_ignore : FLess(0, Sim(k))}
Listed == {ret.list[j] : j \in 1..Len(ret.list)}
StoredCount == Cardinality(DOMAIN hashes_table_)

\* C1: a process call with num_candidates >= 1 whose new hash (from at most
\* max_desc descriptor rows) equals the hash of another stored, non-ignored id
\* returns a list whose first entry is such an id.
C1_IdenticalHashIsBestMatch ==
    ( /\ call.op = "process"
      /\ call.hash # <<>>
      /\ call.num_candidates >= 1
      /\ call.image.rows <= max_desc_
      /\ \E j \in (DOMAIN hashes_table_) \ ({call.image_id} \cup call.images_to_ignore) :
            hashes_table_[j] = call.hash )
    => ( /\ ret.kind = "list"
         /\ ret.list[1] # call.image_id
         /\ hashes_table_[ret.list[1]] = call.hash )

\* C2: a process call with an empty image returns the absent value and leaves
\* the table of stored hashes exactly as it was.
C2_EmptyImageLeavesStore ==
    [][ (call'.op = "process" /\ call'.image.empty)
        => (ret'.kind = "nullopt" /\ hashes_table_' = hashes_table_) ]_vars

\* C2 witness: an empty image was processed on a table of two or more entries.
C2_Witness ==
    /\ call.op = "process"
    /\ call.image.empty
    /\ ret.kind = "nullopt"
    /\ StoredCount >= 2

\* C3: a process call that obtained a non-empty hash leaves image_id mapped to
\* that whole hash and every other entry as it was; the entry count grows by
\* one if image_id was absent and is unchanged if it was present.
C3_ProcessUpserts ==
    [][ (call'.op = "process" /\ call'.hash # <<>>)
        => ( /\ DOMAIN hashes_table_' = (DOMAIN hashes_table_) \cup {call'.image_id}
             /\ hashes_table_'[call'.image_id] = call'.hash
             /\ \A k \in (DOMAIN hashes_table_) \ {call'.image_id} :
                    hashes_table_'[k] = hashes_table_[k]
             /\ Cardinality(DOMAIN hashes_table_')
                  = Cardinality(DOMAIN hashes_table_)
                    + (IF call'.image_id \in DOMAIN hashes_table_ THEN 0 ELSE 1) ) ]_vars

\* C3 witness: an id already stored was processed again, and the call returned
\* no candidates.
C3_Witness ==
    /\ call.op = "process"
    /\ call.hash # <<>>
    /\ call.had
    /\ ret.kind = "nullopt"
    /\ hashes_table_[call.image_id] = call.hash

\* C4: no id of images_to_ignore is in the list a process call returns.
C4_IgnoredNeverReturned ==
    \A j \in 1..Len(ret.list) : ret.list[j] \notin call.images_to_ignore

\* C4 witness: a list was returned while an ignored stored id is strictly
\* closer to the new hash than the best listed id.
C4_Witness ==
    /\ call.op = "process"
    /\ ret.kind = "list"
    /\ \E g \in call.images_to_ignore \cap DOMAIN hashes_table_ :
          /\ g # call.image_id
          /\ FLess(0, Sim(g))
          /\ FLess(Sim(g), Sim(ret.list[1]))

\* C5: for num_candidates >= 0 the returned list has
\* min(num_candidates, number of eligible ids) entries.
C5_ListLength ==
    (call.op = "process" /\ call.hash # <<>> /\ call.num_candidates >= 0)
    => Len(ret.list) = Min2(call.num_candidates, Cardinality(Eligible))

\* C6: a returned list is sorted by non-decreasing similarity, and every
\* eligible id left out is at least as far as the last listed id.
C6_SortedBySimilarity ==
    ret.kind = "list"
    => ( /\ \A j, k \in 1..Len(ret.list) :
              j < k => FLeq(Sim(ret.list[j]), Sim(ret.list[k]))
         /\ \A e \in Eligible \ Listed :
              FLeq(Sim(ret.list[Len(ret.list)]), Sim(e)) )

\* C7: the hash has num_proj * D slots and slot i*D + n holds the scalar of
\* projection i and descriptor column n.
C7_RowMajorHash ==
    call.hash # <<>>
    => ( /\ Len(call.hash) = num_proj_ * DescCols
         /\ \A i \in 0..(num_proj_ - 1), n \in 0..(DescCols - 1) :
              call.hash[i * DescCols + n + 1]
                = ProjectionScalar(r_, call.adjusted, max_desc_, i, n) )

\* C8: an engine configured with num_proj > max_desc never builds basis vectors
\* and never produces or stores a hash.
C8_BadConfigRejected ==
    num_proj_ > max_desc_
    => (r_ = <<>> /\ ~initialized_ /\ call.hash = <<>> /\ DOMAIN hashes_table_ = {})

\* C9: the first calcHash call leaves the basis built (num_proj vectors,
\* initialized), and basis vectors, once there, never change.
C9_BasisBuiltOnce ==
    [][ /\ (r_ # <<>> => r_' = r_)
        /\ ((call'.op \in {"process", "calcHash"} /\ ~call'.image.empty)
              => (initialized_' /\ Len(r_') = num_proj_)) ]_vars

\* C10: the list a process call returns never contains the call's image_id.
C10_NeverReturnsItself ==
    \A j \in 1..Len(ret.list) : ret.list[j] # call.image_id

\* ------------------------------------------- engines with num_proj <= max_desc
\* C5, C6, C9 and C10 restricted to the configurations whose basis holds no NaN
\* vector and whose construction does not throw.
ValidConfig == num_proj_ <= max_desc_
C5_ListLength_ValidConfig == ValidConfig => C5_ListLength
C6_SortedBySimilarity_ValidConfig == ValidConfig => C6_SortedBySimilarity
C10_NeverReturnsItself_ValidConfig == ValidConfig => C10_NeverReturnsItself
C9_BasisBuiltOnce_ValidConfig ==
    [][ ValidConfig =>
          /\ (r_ # <<>> => r_' = r_)
          /\ ((call'.op \in {"process", "calcHash"} /\ ~call'.image.empty)
                => (initialized_' /\ Len(r_') = num_proj_)) ]_vars

====
